---- MODULE Spec2Model ----
(***************************************************************************)
(* A model of the command-dispatch package in cmd.go: Command declaration  *)
(* (AppendArg, AppendVarArg, AddFlag, AddFlagBool, AddEnvArg),             *)
(* Command.Parse with the flag scanning it delegates to flag.FlagSet, the  *)
(* accessors Arg, VarArgs, Flag and EnvArg, and App.AddCommand / App.Run.  *)
(*                                                                         *)
(* Go strings that the code inspects character by character (tokens, flag  *)
(* names and values, environment values, command names) are sequences of   *)
(* one-character strings.  Strings that are only compared or printed (Arg  *)
(* names, environment variable names, error messages) are TLA+ strings.    *)
(* Indices are 1-based here and 0-based in the source.                     *)
(***************************************************************************)
EXTENDS Integers, Sequences, FiniteSets, TLC

VARIABLES commands, app, environ, proc, ncalls, last

vars == <<commands, app, environ, proc, ncalls, last>>

----------------------------------------------------------------------------
(* Bounds                                                                  *)

\* Declared Args per Command, tokens per Parse / App.Run call, tokens per
\* call where calls repeat, Parse calls per process, calls per Setup callback.
MaxArgs == 2
MaxTokens == 3
MaxFlagTokens == 2
MaxCalls == 2
MaxSetupOps == 1

----------------------------------------------------------------------------
(* Literals                                                                *)

\* Values of the error interface: the nil error, a *UsageErr, an opaque error
\* returned by a Run callback.  NoReturn stands for a call that ended the
\* process instead of returning.
Null == [kind |-> "null"]
NilFunc == <<[op |-> "nil func", name |-> <<>>, def |-> <<>>]>>
NilRun == "nil func"
RunFn == "run"
Nil == [kind |-> "nil", errMsg |-> <<>>, showUsage |-> <<>>]
NoReturn == [kind |-> "noreturn", errMsg |-> <<>>, showUsage |-> <<>>]
RunFailed == [kind |-> "error", errMsg |-> <<"run failed">>, showUsage |-> <<>>]
\* A runtime panic, as a Command, as a string and as a list of strings.
Panic == [kind |-> "panic"]
PanicStr == <<"panic">>
PanicList == <<PanicStr>>

TokX == <<"x">>
TokY == <<"y">>
TokDash2 == <<"-", "-">>
TokF == <<"-", "-", "f">>
TokFV == <<"-", "-", "f", "=", "v">>
TokB == <<"-", "-", "b">>
TokB0 == <<"-", "-", "b", "=", "0">>
TokHelp == <<"-", "-", "h", "e", "l", "p">>
TokProg == <<"p">>
TokT == <<"t">>
TokU == <<"u">>

StrTrue == <<"t", "r", "u", "e">>
StrFalse == <<"f", "a", "l", "s", "e">>

NameF == <<"f">>
NameB == <<"b">>

----------------------------------------------------------------------------
(* strconv and strings helpers used through the flag package and EnvArg    *)

\* strconv.ParseBool: the accepted spellings of true and false.
ParseBool(s) ==
    IF s \in {<<"1">>, <<"t">>, <<"T">>, <<"T", "R", "U", "E">>, StrTrue,
              <<"T", "r", "u", "e">>}
    THEN "true"
    ELSE IF s \in {<<"0">>, <<"f">>, <<"F">>, <<"F", "A", "L", "S", "E">>, StrFalse,
                   <<"F", "a", "l", "s", "e">>}
         THEN "false"
         ELSE "err"

\* strconv.FormatBool, used by boolValue.String().
FormatBool(b) == IF b = "true" THEN StrTrue ELSE StrFalse

IsSpace(ch) == ch \in {" ", "\t", "\n", "\f", "\r"}

RECURSIVE TrimLeft(_)
TrimLeft(s) ==
    IF Len(s) > 0 /\ IsSpace(s[1]) THEN TrimLeft(Tail(s)) ELSE s

RECURSIVE TrimRight(_)
TrimRight(s) ==
    IF Len(s) > 0 /\ IsSpace(s[Len(s)]) THEN TrimRight(SubSeq(s, 1, Len(s) - 1)) ELSE s

\* strings.TrimSpace
TrimSpace(s) == TrimRight(TrimLeft(s))

----------------------------------------------------------------------------
(* flag.FlagSet: formal maps a declared name to its Flag, actual is the    *)
(* set of names that some Parse has set, args holds the tokens left over   *)
(* by the last Parse.                                                      *)

NewFlagSet ==
    [formal |-> <<>>, actual |-> {}, args |-> <<>>]

\* FlagSet.String / FlagSet.Bool (FlagSet.Var): registering a name twice panics.
FlagSetVar(fs, name, kind, def) ==
    IF name \in DOMAIN fs.formal
    THEN [formal |-> <<>>, actual |-> {}, args |-> PanicList]
    ELSE [fs EXCEPT !.formal =
            [n \in (DOMAIN fs.formal) \cup {name} |->
                IF n = name
                THEN [kind |-> kind, DefValue |-> def, Value |-> def]
                ELSE fs.formal[n]]]

\* Position of the first "=" in name at source index >= 1, or 0 if none.
EqualsPos(name) ==
    LET cand == {i \in 2..Len(name) : name[i] = "="}
    IN IF cand = {} THEN 0 ELSE CHOOSE i \in cand : \A j \in cand : i <= j

\* Mutation: the flag is marked as set but its value is not stored.
SetValueDropped(fs, name, v) ==
    [fs EXCEPT !.actual = @ \cup {name}]

SetValue(fs, name, v) ==
    [fs EXCEPT !.formal[name].Value = v, !.actual = @ \cup {name}]

\* FlagSet.parseOne: consumes at most one flag from the head of fs.args.
\* err is "none", "help" (ErrHelp) or "fail" (failf).
parseOne(fs) ==
    LET stop(f) == [fs |-> f, seen |-> FALSE, err |-> "none"]
        bad(f, e) == [fs |-> f, seen |-> FALSE, err |-> e]
        ok(f) == [fs |-> f, seen |-> TRUE, err |-> "none"]
    IN
    IF Len(fs.args) = 0 THEN stop(fs)
    ELSE
    LET s == fs.args[1] IN
    IF Len(s) < 2 \/ s[1] # "-" THEN stop(fs)
    ELSE
    LET numMinuses == IF s[2] = "-" THEN 2 ELSE 1 IN
    IF numMinuses = 2 /\ Len(s) = 2 THEN stop([fs EXCEPT !.args = Tail(@)])
    ELSE
    LET name0 == SubSeq(s, numMinuses + 1, Len(s)) IN
    IF Len(name0) = 0 \/ name0[1] = "-" \/ name0[1] = "=" THEN bad(fs, "fail")
    ELSE
    LET fs1 == [fs EXCEPT !.args = Tail(@)]
        eq == EqualsPos(name0)
        hasValue0 == eq # 0
        value0 == IF hasValue0 THEN SubSeq(name0, eq + 1, Len(name0)) ELSE <<>>
        name == IF hasValue0 THEN SubSeq(name0, 1, eq - 1) ELSE name0
    IN
    IF name \notin DOMAIN fs1.formal
    THEN IF name = <<"h", "e", "l", "p">> \/ name = <<"h">>
         THEN bad(fs1, "help")
         ELSE bad(fs1, "fail")
    ELSE
    IF fs1.formal[name].kind = "bool"
    THEN LET b == IF hasValue0 THEN ParseBool(value0) ELSE "true" IN
         IF b = "err" THEN bad(fs1, "fail")
         ELSE ok(SetValue(fs1, name, FormatBool(b)))
    ELSE
         IF ~hasValue0 /\ Len(fs1.args) > 0
         THEN ok(SetValue([fs1 EXCEPT !.args = Tail(@)], name, fs1.args[1]))
         ELSE IF ~hasValue0 THEN bad(fs1, "fail")
              ELSE ok(SetValue(fs1, name, value0))

RECURSIVE parseLoop(_)
parseLoop(fs) ==
    LET r == parseOne(fs) IN
    IF r.seen THEN parseLoop(r.fs) ELSE r

\* Mutation: the arguments are added to what the previous Parse left over.
FlagSetParseAppending(fs, arguments) ==
    parseLoop([fs EXCEPT !.args = @ \o arguments])

\* FlagSet.Parse(arguments): f.args = arguments, then parseOne until it stops.
\* Under flag.ExitOnError an error ends the process.
FlagSetParse(fs, arguments) ==
    parseLoop([fs EXCEPT !.args = arguments])

\* FlagSet.Arg(i), i is the source's 0-based index.
FlagSetArg(fs, i) ==
    IF i < 0 \/ i >= Len(fs.args) THEN <<>> ELSE fs.args[i + 1]

----------------------------------------------------------------------------
(* UsageErr                                                                *)

newUsageErr(msg, f) ==
    [kind |-> "UsageErr",
     errMsg |-> IF msg = <<>> THEN <<"Invalid usage">> ELSE msg,
     showUsage |-> f]

\* The bound method values cmd.Usage and app.Usage.
CommandUsage(id) == <<"Command.Usage", id>>
AppUsage == <<"App.Usage">>

----------------------------------------------------------------------------
(* Command.  Description and Group only feed the usage text and are left   *)
(* out; EnvArgs keeps the key set of the name -> description map.          *)

NewCommand(name, setup, run) ==
    [Name |-> name, Args |-> <<>>, EnvArgs |-> {}, Flags |-> NewFlagSet,
     Setup |-> setup, Run |-> run]

AppendArg(c, name) ==
    [c EXCEPT !.Args = Append(@, [Name |-> name, Variable |-> FALSE])]

AppendVarArg(c, name) ==
    [c EXCEPT !.Args = Append(@, [Name |-> name, Variable |-> TRUE])]

\* Panic when the flag package rejects the name.
AddFlag(c, name, defaultValue) ==
    LET fs == FlagSetVar(c.Flags, name, "string", defaultValue) IN
    IF fs.args = PanicList THEN Panic ELSE [c EXCEPT !.Flags = fs]

AddFlagBool(c, name, defaultValue) ==
    LET fs == FlagSetVar(c.Flags, name, "bool", FormatBool(defaultValue)) IN
    IF fs.args = PanicList THEN Panic ELSE [c EXCEPT !.Flags = fs]

AddEnvArg(c, name) ==
    [c EXCEPT !.EnvArgs = @ \cup {name}]

\* Mutation: the declaration index is taken one too far.
ArgOffByOne(c, name) ==
    LET hits == {i \in 1..Len(c.Args) : c.Args[i].Name = name} IN
    IF hits = {} THEN <<>>
    ELSE LET i == CHOOSE h \in hits : \A k \in hits : h <= k
         IN FlagSetArg(c.Flags, i)

\* Command.Arg: the first declared Arg with that name decides the index.
Arg(c, name) ==
    LET hits == {i \in 1..Len(c.Args) : c.Args[i].Name = name} IN
    IF hits = {} THEN <<>>
    ELSE LET i == CHOOSE h \in hits : \A k \in hits : h <= k
         IN FlagSetArg(c.Flags, i - 1)

\* Mutation: the value is not trimmed.
EnvArgUntrimmed(env, name) == env[name]

\* Command.EnvArg over the process environment env.
EnvArg(env, name) == TrimSpace(env[name])

\* Mutation: the slice starts after the variable Arg's first token.
VarArgsFromLen(c) ==
    LET lo == Len(c.Args)
        a == c.Flags.args
    IN IF lo < 0 \/ lo > Len(a) THEN PanicList ELSE SubSeq(a, lo + 1, Len(a))

\* Command.VarArgs: Flags.Args()[len(cmd.Args)-1:]; a slice bound that is
\* negative or past the end panics.
VarArgs(c) ==
    LET lo == Len(c.Args) - 1
        a == c.Flags.args
    IN IF lo < 0 \/ lo > Len(a) THEN PanicList ELSE SubSeq(a, lo + 1, Len(a))

\* Command.Flag: a lookup of an undeclared name dereferences nil.
Flag(c, name) ==
    IF name \in DOMAIN c.Flags.formal THEN c.Flags.formal[name].Value ELSE PanicStr

WrongArgs == <<"Wrong number of command arguments">>
EnvUnset(n) == <<"Environment variable ", n, " is unset">>

\* Mutation: surplus tokens are accepted when no Arg is variable.
WrongNumberFixedTooFew(varArgs, n, declared) ==
    \/ ~varArgs /\ n < declared
    \/ varArgs /\ n < declared

\* Mutation: the variable Arg is not counted.
WrongNumberVariableUncounted(varArgs, n, declared) ==
    \/ ~varArgs /\ n # declared
    \/ varArgs /\ n < declared - 1

\* The arity test of Command.Parse: n positional tokens are left, declared
\* Args are declared, varArgs says whether one of them is variable.
WrongNumber(varArgs, n, declared) ==
    \/ ~varArgs /\ n # declared
    \/ varArgs /\ n < declared

\* Command.Parse on the Command held at id.  The result is the set of
\* possible outcomes: the range over the EnvArgs map visits the names in an
\* unspecified order, so any blank name may be the one reported.
Parse(c, id, args, env) ==
    LET r == FlagSetParse(c.Flags, args)
        c1 == [c EXCEPT !.Flags = r.fs]
        varArgs == \E i \in 1..Len(c1.Args) : c1.Args[i].Variable
        blank == {e \in c1.EnvArgs : EnvArg(env, e) = <<>>}
    IN
    IF r.err # "none" THEN {[cmd |-> c1, ret |-> NoReturn]}
    ELSE IF WrongNumber(varArgs, Len(c1.Flags.args), Len(c1.Args))
    THEN {[cmd |-> c1, ret |-> newUsageErr(WrongArgs, CommandUsage(id))]}
    ELSE IF blank # {}
    THEN {[cmd |-> c1, ret |-> newUsageErr(EnvUnset(e), CommandUsage(id))] : e \in blank}
    ELSE {[cmd |-> c1, ret |-> Nil]}

----------------------------------------------------------------------------
(* Setup callbacks: a SetupFunc is a finite list of declaration calls on   *)
(* the Command it receives.                                                *)

OpAppendArg(n) == [op |-> "AppendArg", name |-> <<n>>, def |-> <<>>]
OpAppendVarArg(n) == [op |-> "AppendVarArg", name |-> <<n>>, def |-> <<>>]
OpAddFlag(n, d) == [op |-> "AddFlag", name |-> n, def |-> d]
OpAddFlagBool(n, d) == [op |-> "AddFlagBool", name |-> n, def |-> <<d>>]
OpAddEnvArg(n) == [op |-> "AddEnvArg", name |-> <<n>>, def |-> <<>>]

ApplyOp(c, o) ==
    IF o.op = "AppendArg" THEN AppendArg(c, o.name[1])
    ELSE IF o.op = "AppendVarArg" THEN AppendVarArg(c, o.name[1])
    ELSE IF o.op = "AddFlag" THEN AddFlag(c, o.name, o.def)
    ELSE IF o.op = "AddFlagBool" THEN AddFlagBool(c, o.name, o.def[1])
    ELSE AddEnvArg(c, o.name[1])

RECURSIVE CallSetup(_, _)
CallSetup(c, ops) ==
    IF c = Panic \/ Len(ops) = 0 THEN c
    ELSE CallSetup(ApplyOp(c, Head(ops)), Tail(ops))

----------------------------------------------------------------------------
(* App                                                                     *)

NewApp == [Commands |-> <<>>]

\* app.Commands[cmd.Name] = cmd
Register(a, name, id) ==
    [a EXCEPT !.Commands =
        [n \in (DOMAIN a.Commands) \cup {name} |->
            IF n = name THEN id ELSE a.Commands[n]]]

----------------------------------------------------------------------------
(* Inputs                                                                  *)

CmdIds == {1, 2}
ArgNames == {"a", "b"}
EnvNames == {"E1", "E2"}
StrDefaults == {<<"d">>}
RunResults == {Nil, RunFailed}

Lists(S, n) == UNION {[1..k -> S] : k \in 0..n}

\* Process environments: a variable that is unset reads as the empty string.
EnvAllSet == [E1 |-> <<"e">>, E2 |-> <<" ", "e", " ">>]
EnvE2Blank == [E1 |-> <<"e">>, E2 |-> <<" ", "\t">>]
EnvE1Unset == [E1 |-> <<>>, E2 |-> <<"e">>]
EnvNoneSet == [E1 |-> <<>>, E2 |-> <<" ">>]
Environs == {EnvAllSet, EnvE2Blank, EnvE1Unset, EnvNoneSet}

NoCall == [op |-> "none", id |-> 0, args |-> <<>>, ret |-> Nil, ran |-> <<>>, shown |-> <<>>]
Call(op, id, args, ret) ==
    [op |-> op, id |-> id, args |-> args, ret |-> ret, ran |-> <<>>, shown |-> <<>>]

----------------------------------------------------------------------------
(* Actions on a Command                                                    *)

\* One declaration call on the Command at id; result is the Command after
\* the call or Panic.
Declare(id, result) ==
    /\ proc = "running"
    /\ IF result = Panic
       THEN /\ proc' = "panicked"
            /\ UNCHANGED commands
       ELSE /\ commands' = [commands EXCEPT ![id] = result]
            /\ UNCHANGED proc
    /\ last' = Call("declare", id, <<>>, Nil)
    /\ UNCHANGED <<app, environ, ncalls>>

DoAppendArg(id, name) ==
    /\ commands[id] # Null
    /\ Len(commands[id].Args) < MaxArgs
    /\ Declare(id, AppendArg(commands[id], name))

DoAppendVarArg(id, name) ==
    /\ commands[id] # Null
    /\ Len(commands[id].Args) < MaxArgs
    /\ Declare(id, AppendVarArg(commands[id], name))

DoAddFlag(id, name, def) ==
    /\ commands[id] # Null
    /\ Declare(id, AddFlag(commands[id], name, def))

DoAddFlagBool(id, name, def) ==
    /\ commands[id] # Null
    /\ Declare(id, AddFlagBool(commands[id], name, def))

DoAddEnvArg(id, name) ==
    /\ commands[id] # Null
    /\ Declare(id, AddEnvArg(commands[id], name))

DoParse(id, args) ==
    /\ proc = "running"
    /\ commands[id] # Null
    /\ ncalls < MaxCalls
    /\ \E o \in Parse(commands[id], id, args, environ) :
         /\ commands' = [commands EXCEPT ![id] = o.cmd]
         /\ proc' = IF o.ret = NoReturn THEN "exited" ELSE "running"
         /\ last' = Call("Parse", id, args, o.ret)
    /\ ncalls' = ncalls + 1
    /\ UNCHANGED <<app, environ>>

----------------------------------------------------------------------------
(* Actions on the App                                                      *)

DoNewCommand(id, name, setup, run) ==
    /\ proc = "running"
    /\ commands[id] = Null
    /\ commands' = [commands EXCEPT ![id] = NewCommand(name, setup, run)]
    /\ last' = Call("NewCommand", id, <<>>, Nil)
    /\ UNCHANGED <<app, environ, proc, ncalls>>

\* App.AddCommand: the map insert, then the Setup callback on the Command.
DoAddCommand(id) ==
    /\ proc = "running"
    /\ commands[id] # Null
    /\ LET c == commands[id]
           c1 == IF c.Setup = NilFunc THEN Panic ELSE CallSetup(c, c.Setup)
       IN /\ c1 # Panic => Len(c1.Args) <= MaxArgs
          /\ app' = Register(app, c.Name, id)
          /\ IF c1 = Panic
             THEN /\ proc' = "panicked"
                  /\ UNCHANGED commands
             ELSE /\ commands' = [commands EXCEPT ![id] = c1]
                  /\ UNCHANGED proc
    /\ last' = Call("AddCommand", id, <<>>, Nil)
    /\ UNCHANGED <<environ, ncalls>>

HasHelp(rest) == \E i \in 1..Len(rest) : rest[i] = TokHelp

\* Mutation: the error of Parse is ignored.
ParseFailedIgnored(err) == FALSE

\* if err := cmd.Parse(args[2:]); err != nil { return err }
ParseFailed(err) == err # Nil

\* App.Run
DoAppRun(args) ==
    /\ proc = "running"
    /\ ncalls < MaxCalls
    /\ ncalls' = ncalls + 1
    /\ UNCHANGED <<app, environ>>
    /\ IF Len(args) < 2
       THEN /\ last' = Call("Run", 0, args, newUsageErr(<<"No command given">>, AppUsage))
            /\ UNCHANGED <<commands, proc>>
       ELSE IF args[2] = TokHelp
       THEN /\ last' = [Call("Run", 0, args, Nil) EXCEPT !.shown = AppUsage]
            /\ UNCHANGED <<commands, proc>>
       ELSE IF args[2] \notin DOMAIN app.Commands
       THEN /\ last' = Call("Run", 0, args, newUsageErr(<<"Invalid command">>, AppUsage))
            /\ UNCHANGED <<commands, proc>>
       ELSE
       LET id == app.Commands[args[2]]
           rest == SubSeq(args, 3, Len(args))
       IN
       IF HasHelp(rest)
       THEN /\ last' = [Call("Run", id, args, Nil) EXCEPT !.shown = CommandUsage(id)]
            /\ UNCHANGED <<commands, proc>>
       ELSE
       \E o \in Parse(commands[id], id, rest, environ) :
         /\ commands' = [commands EXCEPT ![id] = o.cmd]
         /\ IF o.ret = NoReturn
            THEN /\ proc' = "exited"
                 /\ last' = Call("Run", id, args, NoReturn)
            ELSE IF ParseFailed(o.ret)
            THEN /\ proc' = proc
                 /\ last' = Call("Run", id, args, o.ret)
            ELSE IF o.cmd.Run = NilRun
            THEN /\ proc' = "panicked"
                 /\ last' = Call("Run", id, args, NoReturn)
            ELSE \E r \in RunResults :
                 /\ proc' = proc
                 /\ last' = [Call("Run", id, args, r) EXCEPT !.ran = <<[id |-> id, ret |-> r]>>]

----------------------------------------------------------------------------
(* Specification of one Command built and parsed directly, as the tests    *)
(* do: positional Args, one string flag, no required environment.          *)

InitCommand(envs) ==
    /\ commands = [i \in CmdIds |-> IF i = 1 THEN NewCommand(TokT, NilFunc, NilRun) ELSE Null]
    /\ app = NewApp
    /\ environ \in envs
    /\ proc = "running"
    /\ ncalls = 0
    /\ last = NoCall

ArgTokens == {TokX, TokY, TokDash2, TokF}

Init == InitCommand({EnvAllSet})

\* One process invocation parses once.
Next ==
    \/ \E n \in ArgNames : DoAppendArg(1, n)
    \/ \E n \in ArgNames : DoAppendVarArg(1, n)
    \/ \E d \in StrDefaults : DoAddFlag(1, NameF, d)
    \/ \E a \in Lists(ArgTokens, MaxTokens) : ncalls = 0 /\ DoParse(1, a)

Spec == Init /\ [][Next]_vars

----------------------------------------------------------------------------
(* Specification of a Command with flags, parsed repeatedly.               *)

FlagTokens == {TokX, TokF, TokFV, TokB, TokB0}

InitFlags == InitCommand({EnvAllSet})

NextFlags ==
    \/ DoAppendVarArg(1, "a")
    \/ \E d \in StrDefaults : DoAddFlag(1, NameF, d)
    \/ DoAddFlagBool(1, NameB, "false")
    \/ \E a \in Lists(FlagTokens, MaxFlagTokens) : DoParse(1, a)

SpecFlags == InitFlags /\ [][NextFlags]_vars

----------------------------------------------------------------------------
(* Specification of a Command with required environment variables.         *)

EnvTokens == {TokX}

InitEnv == InitCommand(Environs)

NextEnv ==
    \/ DoAppendArg(1, "a")
    \/ DoAppendVarArg(1, "b")
    \/ \E n \in EnvNames : DoAddEnvArg(1, n)
    \/ \E a \in Lists(EnvTokens, MaxTokens) : DoParse(1, a)

SpecEnv == InitEnv /\ [][NextEnv]_vars

----------------------------------------------------------------------------
(* Specification of an App: Commands are constructed with their callbacks, *)
(* registered, and one App.Run dispatches the process arguments.           *)

SetupOps == {OpAppendArg("a"), OpAddEnvArg("E1"), OpAddFlagBool(NameB, "false")}
SetupFuncs == Lists(SetupOps, MaxSetupOps)

CtorInputs ==
    {<<1, TokT, s, RunFn>> : s \in SetupFuncs}
    \cup {<<2, TokT, <<>>, RunFn>>, <<2, TokU, <<OpAppendVarArg("b")>>, RunFn>>,
          <<2, TokU, <<>>, NilRun>>, <<2, TokHelp, <<>>, RunFn>>,
          <<2, TokU, NilFunc, RunFn>>}

AppTokens == {TokT, TokU, TokHelp, TokX, TokB}
AppArgLists == {<<>>} \cup {<<TokProg>> \o r : r \in Lists(AppTokens, MaxTokens)}

InitApp ==
    /\ commands = [i \in CmdIds |-> Null]
    /\ app = NewApp
    /\ environ \in {EnvAllSet, EnvE1Unset}
    /\ proc = "running"
    /\ ncalls = 0
    /\ last = NoCall

NextApp ==
    \/ \E i \in CtorInputs : DoNewCommand(i[1], i[2], i[3], i[4])
    \/ \E id \in CmdIds : DoAddCommand(id)
    \/ \E a \in AppArgLists : ncalls = 0 /\ DoAppRun(a)

SpecApp == InitApp /\ [][NextApp]_vars

----------------------------------------------------------------------------
(* Reference definitions for the properties.  They restate, from the       *)
(* documented command-line syntax, which tokens are flags and which are    *)
(* positional, without going through the FlagSet operators above.          *)

Cmd == commands[1]

IsUsageErr(e) == e.kind = "UsageErr"

AfterParse == last.op = "Parse" /\ last.ret # NoReturn
ParsedOk == last.op = "Parse" /\ last.ret = Nil

IsFlagToken(t) == Len(t) >= 2 /\ t[1] = "-" /\ t # TokDash2

Undash(t) == IF t[2] = "-" THEN SubSeq(t, 3, Len(t)) ELSE SubSeq(t, 2, Len(t))

FirstEq(b) ==
    IF \E i \in 1..Len(b) : b[i] = "="
    THEN CHOOSE i \in 1..Len(b) : b[i] = "=" /\ \A j \in 1..(i - 1) : b[j] # "="
    ELSE Len(b) + 1

FlagNameOf(t) == SubSeq(Undash(t), 1, FirstEq(Undash(t)) - 1)
HasInlineValue(t) == FirstEq(Undash(t)) <= Len(Undash(t))
InlineValue(t) == SubSeq(Undash(t), FirstEq(Undash(t)) + 1, Len(Undash(t)))

IsBoolFlag(c, n) == n \in DOMAIN c.Flags.formal /\ c.Flags.formal[n].kind = "bool"

\* A flag token takes the next token as its value when it names a non-boolean
\* flag and carries no "=value".
TakesNext(c, t) == ~HasInlineValue(t) /\ ~IsBoolFlag(c, FlagNameOf(t))

\* The positional tokens of toks: what is left once the leading flags (and a
\* terminating "--") are taken off.
RECURSIVE Positional(_, _)
Positional(c, toks) ==
    IF Len(toks) = 0 THEN <<>>
    ELSE IF Head(toks) = TokDash2 THEN Tail(toks)
    ELSE IF ~IsFlagToken(Head(toks)) THEN toks
    ELSE IF TakesNext(c, Head(toks)) /\ Len(toks) >= 2 THEN Positional(c, Tail(Tail(toks)))
    ELSE Positional(c, Tail(toks))

\* The value the leading flags of toks give to flag n: <<v>> for the last
\* override, cur if there is none.  A boolean reads back as true or false.
RECURSIVE Override(_, _, _, _)
Override(c, toks, n, cur) ==
    IF Len(toks) = 0 \/ ~IsFlagToken(Head(toks)) THEN cur
    ELSE
    LET t == Head(toks)
        given == IF HasInlineValue(t)
                 THEN IF IsBoolFlag(c, n) THEN <<FormatBool(ParseBool(InlineValue(t)))>>
                      ELSE <<InlineValue(t)>>
                 ELSE IF IsBoolFlag(c, n) THEN <<StrTrue>>
                 ELSE IF Len(toks) >= 2 THEN <<toks[2]>> ELSE cur
        next == IF FlagNameOf(t) = n THEN given ELSE cur
    IN IF TakesNext(c, t) /\ Len(toks) >= 2
       THEN Override(c, Tail(Tail(toks)), n, next)
       ELSE Override(c, Tail(toks), n, next)

\* The leading flags of toks are declared and each has a value it accepts.
RECURSIVE WellFormed(_, _)
WellFormed(c, toks) ==
    IF Len(toks) = 0 \/ ~IsFlagToken(Head(toks)) THEN TRUE
    ELSE
    LET t == Head(toks)
        n == FlagNameOf(t)
    IN /\ Undash(t)[1] \notin {"-", "="}
       /\ n \in DOMAIN c.Flags.formal
       /\ (IsBoolFlag(c, n) /\ HasInlineValue(t)) => ParseBool(InlineValue(t)) # "err"
       /\ TakesNext(c, t) => Len(toks) >= 2
       /\ IF TakesNext(c, t)
          THEN WellFormed(c, Tail(Tail(toks)))
          ELSE WellFormed(c, Tail(toks))

NoVariable(c) == \A i \in 1..Len(c.Args) : ~c.Args[i].Variable

\* N fixed Args followed by one variable Arg.
FixedThenVariable(c) ==
    /\ Len(c.Args) >= 1
    /\ c.Args[Len(c.Args)].Variable
    /\ \A i \in 1..(Len(c.Args) - 1) : ~c.Args[i].Variable

\* An environment value that is unset, empty or all white space.
Blank(v) == \A i \in 1..Len(v) : v[i] \in {" ", "\t", "\n", "\f", "\r"}

\* The arity rule: every declared Arg binds a token, and only a variable Arg
\* lets further tokens through.
ArityOk(c, count) ==
    IF NoVariable(c) THEN count = Len(c.Args) ELSE count >= Len(c.Args)

BlankEnv(c) == {n \in c.EnvArgs : Blank(environ[n])}

\* A Command as NewCommand and the same declaration calls leave it.
FreshOf(c) ==
    [c EXCEPT !.Flags =
        [formal |-> [n \in DOMAIN c.Flags.formal |->
                        [c.Flags.formal[n] EXCEPT !.Value = c.Flags.formal[n].DefValue]],
         actual |-> {},
         args |-> <<>>]]

----------------------------------------------------------------------------
(* Properties                                                              *)

\* C1: for a Command with only fixed Args and no required environment
\* variable, a Parse whose flags are well formed returns a usage error iff
\* the number of positional tokens differs from the number of Args, and nil
\* exactly when the two are equal.
C1_FixedArity ==
    (AfterParse /\ NoVariable(Cmd) /\ Cmd.EnvArgs = {})
    => LET count == Len(Positional(Cmd, last.args)) IN
       /\ IsUsageErr(last.ret) <=> count # Len(Cmd.Args)
       /\ last.ret = Nil <=> count = Len(Cmd.Args)

C1_Witness ==
    /\ AfterParse /\ NoVariable(Cmd) /\ Cmd.EnvArgs = {}
    /\ Len(Cmd.Args) = 1
    /\ last.args = <<TokF, TokX, TokY>>
    /\ last.ret = Nil

\* C2 as stated: with N fixed Args and a variable last Arg, Parse succeeds
\* iff the number of positional tokens is at least N.
C2_Original ==
    (AfterParse /\ FixedThenVariable(Cmd) /\ Cmd.EnvArgs = {})
    => (last.ret = Nil <=> Len(Positional(Cmd, last.args)) >= Len(Cmd.Args) - 1)

\* C2 amended: with N fixed Args and a variable last Arg, Parse succeeds iff
\* the number of positional tokens is at least N + 1: the variable Arg must
\* bind a token too.
C2_VariableArity ==
    (AfterParse /\ FixedThenVariable(Cmd) /\ Cmd.EnvArgs = {})
    => /\ last.ret = Nil <=> Len(Positional(Cmd, last.args)) >= Len(Cmd.Args)
       /\ IsUsageErr(last.ret) <=> Len(Positional(Cmd, last.args)) < Len(Cmd.Args)

C2_Witness ==
    /\ AfterParse /\ FixedThenVariable(Cmd) /\ Cmd.EnvArgs = {}
    /\ Len(Cmd.Args) = 2
    /\ Len(Positional(Cmd, last.args)) = 1
    /\ IsUsageErr(last.ret)

\* C3: after a successful Parse of a Command with N fixed Args followed by a
\* variable Arg, VarArgs() is the positional tokens from index N on: count - N
\* values, in input order, none of them bound to a fixed Arg.
C3_VarArgsTail ==
    (ParsedOk /\ FixedThenVariable(Cmd))
    => LET pos == Positional(Cmd, last.args)
           N == Len(Cmd.Args) - 1
           va == VarArgs(Cmd)
       IN /\ Len(va) = Len(pos) - N
          /\ \A k \in 1..Len(va) : va[k] = pos[N + k]

C3_Witness ==
    /\ ParsedOk /\ FixedThenVariable(Cmd)
    /\ Len(Cmd.Args) = 2
    /\ last.args = <<TokX, TokY, TokX>>
    /\ VarArgs(Cmd) = <<TokY, TokX>>

\* C4: for a Command without a variable Arg, VarArgs() after a successful
\* Parse is the empty sequence.
C4_NoVariableEmpty ==
    (ParsedOk /\ NoVariable(Cmd)) => VarArgs(Cmd) = <<>>

\* C8: after a successful Parse, Arg(name) of a declared name is the
\* positional token at the index where that name is declared (the first
\* such index), which for the variable Arg is the first token bound to it,
\* and Arg of a name never declared is the empty Value.
C8_ArgByIndex ==
    ParsedOk
    => LET pos == Positional(Cmd, last.args)
           declared == {Cmd.Args[i].Name : i \in 1..Len(Cmd.Args)}
       IN /\ \A i \in 1..Len(Cmd.Args) :
               (\A j \in 1..(i - 1) : Cmd.Args[j].Name # Cmd.Args[i].Name)
               => Arg(Cmd, Cmd.Args[i].Name) = pos[i]
          /\ \A n \in (ArgNames \cup {"zz"}) \ declared : Arg(Cmd, n) = <<>>

C8_Witness ==
    /\ ParsedOk /\ FixedThenVariable(Cmd)
    /\ Len(Cmd.Args) = 2 /\ Cmd.Args[1].Name = "a" /\ Cmd.Args[2].Name = "b"
    /\ last.args = <<TokY, TokX, TokY>>
    /\ Arg(Cmd, "a") = TokY /\ Arg(Cmd, "b") = TokX

\* C9: the declared Arg list holds at most one variable Arg, and a variable
\* Arg is the last element.
C9_VariableIsLast ==
    Cmd # Null => \A i \in 1..Len(Cmd.Args) : Cmd.Args[i].Variable => i = Len(Cmd.Args)

\* C5 as stated: after a Parse, a declared flag without an override among
\* the tokens reads as its declared default, and one with an override reads
\* as the overriding value.
C5_Original ==
    AfterParse
    => \A n \in DOMAIN Cmd.Flags.formal :
         LET o == Override(Cmd, last.args, n, <<>>) IN
         IF o = <<>>
         THEN Flag(Cmd, n) = Cmd.Flags.formal[n].DefValue
         ELSE Flag(Cmd, n) = o[1]

\* C5 amended: a Parse gives a flag that its tokens override the overriding
\* value, and leaves every other declared flag at the value it had before
\* that Parse; that value is the declared default on the first Parse and for
\* a flag just declared.
C5_FlagValue ==
    [][/\ (last'.op = "Parse" /\ last'.ret # NoReturn)
          => \A n \in DOMAIN commands'[1].Flags.formal :
               LET o == Override(commands'[1], last'.args, n, <<>>) IN
               IF o # <<>>
               THEN Flag(commands'[1], n) = o[1]
               ELSE /\ Flag(commands'[1], n) = Flag(commands[1], n)
                    /\ ncalls = 0 => Flag(commands'[1], n) = commands'[1].Flags.formal[n].DefValue
       /\ (last'.op = "declare" /\ proc' = "running")
          => \A n \in DOMAIN commands'[1].Flags.formal :
               IF n \in DOMAIN commands[1].Flags.formal
               THEN Flag(commands'[1], n) = Flag(commands[1], n)
               ELSE Flag(commands'[1], n) = commands'[1].Flags.formal[n].DefValue
      ]_vars

C5_Witness ==
    /\ AfterParse /\ ncalls = 2
    /\ NameF \in DOMAIN Cmd.Flags.formal
    /\ Override(Cmd, last.args, NameF, <<>>) = <<>>
    /\ Flag(Cmd, NameF) = TokX
    /\ NameB \in DOMAIN Cmd.Flags.formal
    /\ Override(Cmd, last.args, NameB, <<>>) = <<StrTrue>>
    /\ Flag(Cmd, NameB) = StrTrue /\ Cmd.Flags.formal[NameB].DefValue = StrFalse

\* C6: when the arity check passes, Parse returns a usage error if some
\* required environment variable is unset or blank after trimming and nil if
\* none is; when the arity check fails, its error is the one returned.
C6_RequiredEnv ==
    AfterParse
    => LET ok == ArityOk(Cmd, Len(Positional(Cmd, last.args)))
           blank == BlankEnv(Cmd)
       IN /\ (ok /\ blank # {})
             => IsUsageErr(last.ret) /\ \E n \in blank : last.ret.errMsg = EnvUnset(n)
          /\ (ok /\ blank = {}) => last.ret = Nil
          /\ ~ok => IsUsageErr(last.ret) /\ last.ret.errMsg = WrongArgs

C6_Witness ==
    /\ AfterParse
    /\ Len(Cmd.Args) = 1 /\ last.args = <<TokX>>
    /\ Cmd.EnvArgs = {"E1", "E2"}
    /\ environ = EnvE2Blank
    /\ last.ret = newUsageErr(EnvUnset("E2"), CommandUsage(1))

\* C7: one App.Run invokes the Run callback of the matched Command exactly
\* once, and returns what it returned, when there are at least two tokens,
\* the second names a registered Command, no later token is --help and Parse
\* succeeds; otherwise no Run callback is invoked, and a Parse failure is
\* what App.Run returns.
C7_RunOnce ==
    last.op = "Run"
    => LET a == last.args
           named == Len(a) >= 2 /\ a[2] # TokHelp /\ a[2] \in DOMAIN app.Commands
           dispatched == named /\ \A i \in 3..Len(a) : a[i] # TokHelp
           id == app.Commands[a[2]]
           rest == SubSeq(a, 3, Len(a))
       IN
       IF dispatched
       THEN LET c == commands[id]
                formed == WellFormed(c, rest)
                ok == ArityOk(c, Len(Positional(c, rest)))
                blank == BlankEnv(c)
            IN
            IF formed /\ ok /\ blank = {} /\ c.Run # NilRun
            THEN /\ Len(last.ran) = 1
                 /\ last.ran[1].id = id
                 /\ last.ret = last.ran[1].ret
            ELSE /\ last.ran = <<>>
                 /\ (formed /\ ~ok) => last.ret = newUsageErr(WrongArgs, CommandUsage(id))
                 /\ (formed /\ ok /\ blank # {})
                    => \E n \in blank : last.ret = newUsageErr(EnvUnset(n), CommandUsage(id))
       ELSE last.ran = <<>>

C7_Witness ==
    /\ last.op = "Run"
    /\ DOMAIN app.Commands = {TokT, TokU}
    /\ last.args = <<TokProg, TokT, TokX>>
    /\ last.ran = <<[id |-> 1, ret |-> RunFailed]>>
    /\ last.ret = RunFailed

\* C10 as stated: after any sequence of Parse calls, the result of the last
\* Parse and the values of Flag, Arg and VarArgs equal those of a fresh
\* Command with the same declarations parsed once with the same tokens.
C10_Original ==
    last.op = "Parse"
    => \E o \in Parse(FreshOf(Cmd), 1, last.args, environ) :
         /\ o.ret = last.ret
         /\ last.ret # NoReturn
            => /\ VarArgs(o.cmd) = VarArgs(Cmd)
               /\ \A n \in ArgNames \cup {"zz"} : Arg(o.cmd, n) = Arg(Cmd, n)
               /\ \A n \in DOMAIN Cmd.Flags.formal : Flag(o.cmd, n) = Flag(Cmd, n)

\* C10 amended: the result of the last Parse and the values of Arg and
\* VarArgs equal those of a fresh Command parsed once with the same tokens,
\* and so does Flag for every flag that the last tokens override or that no
\* Parse has set; a flag set by an earlier Parse only keeps that value.
C10_HistoryIndependent ==
    last.op = "Parse"
    => \E o \in Parse(FreshOf(Cmd), 1, last.args, environ) :
         /\ o.ret = last.ret
         /\ last.ret # NoReturn
            => /\ VarArgs(o.cmd) = VarArgs(Cmd)
               /\ \A n \in ArgNames \cup {"zz"} : Arg(o.cmd, n) = Arg(Cmd, n)
               /\ \A n \in DOMAIN Cmd.Flags.formal :
                    (Override(Cmd, last.args, n, <<>>) # <<>> \/ n \notin Cmd.Flags.actual)
                    => Flag(o.cmd, n) = Flag(Cmd, n)

C10_Witness ==
    /\ ParsedOk /\ ncalls = 2
    /\ Len(Cmd.Args) = 1
    /\ last.args = <<TokB, TokX>>
    /\ VarArgs(Cmd) = <<TokX>>
    /\ NameF \in Cmd.Flags.actual
    /\ Flag(Cmd, NameF) = <<"v">>

====
